---- MODULE Spec2Model ----
(***************************************************************************)
(* m2k: MIDI note events to synthetic key presses.                         *)
(*                                                                         *)
(* The model follows src/src/main.rs (main, with_shutdown,                 *)
(* handle_midi_message, read_mappings) and src/src/mappings.rs (Mappings). *)
(* Contexts: the main thread, the interrupt-handler invocations, and the   *)
(* MIDI callback invocations.                                              *)
(***************************************************************************)
EXTENDS Integers, Sequences, FiniteSets

VARIABLES
    file,         \* environment: the command line argument and the file behind it
    pc,           \* main thread: position in main / the closure of with_shutdown
    should_exit,  \* the AtomicBool shared by the handler and the wait loop
    token,        \* the park token of the main thread (set by unpark)
    lastWake,     \* why the latest thread::park() returned
    hpc,          \* per interrupt-handler invocation: position in the handler
    mappings,     \* the Mappings value, <<>> until it is constructed
    registered,   \* the MessageReceived handler is attached to the device
    cb,           \* per callback invocation: position, message, outcome
    reported,     \* number of report_error calls so far (lines on stderr)
    exitStatus,   \* process exit status: None while the process runs, Some(code) after
    exitBy,       \* which context ended the process
    diag          \* the error main returned, as its Diagnostic presents it

vars == <<file, pc, should_exit, token, lastWake, hpc, mappings, registered,
          cb, reported, exitStatus, exitBy, diag>>

----------------------------------------------------------------------------
(* Bounds *)

\* Number of interrupt signals delivered in a run.
MaxSignals == 2

\* Longest configuration document (number of [[mapping]] entries).
MaxDocLen == 2

\* The callback invocations of a run; each handles one message.
Callbacks == {"cb1", "cb2"}

\* Note values carried by the messages a run delivers: mapped by the
\* hardcoded table, unmapped, and beyond the table.
MsgNotes == {60, 61, 200}

\* Integer values written in configuration documents: note fields ...
DocNotes == {60, 127, 128, 200, 256}

\* ... and key fields.
DocKeys == {10, 65, 66}

----------------------------------------------------------------------------
(* Program constants *)

\* Mappings::LEN
LEN == 128

\* KEYBD_EVENT_FLAGS(0): key down
KEYDOWN == 0

\* KEYEVENTF_KEYUP
KEYEVENTF_KEYUP == 2

\* Exit status of process::exit(1) and of main returning Err
EXIT_FAILURE == 1

\* Exit status of main returning Ok(())
EXIT_SUCCESS == 0

\* Exit status of a panic in main (set_handler(..).unwrap())
EXIT_PANIC == 101

\* largest u8
U8_MAX == 255

\* Option<VIRTUAL_KEY>: None is <<>>, Some(k) is <<k>>
None == <<>>

Some(k) == <<k>>

----------------------------------------------------------------------------
(* mappings.rs *)

\* vec![None; LEN]
Empty == [i \in 1..LEN |-> None]

\* A hardcoded table with a copied line left unedited: D4 gets the key of C4.
HardcodedSlip ==
    [i \in 1..LEN |->
        CASE i = 48 + 1 -> Some(32)
          [] i = 60 + 1 -> Some(67)
          [] i = 62 + 1 -> Some(67)
          [] i = 64 + 1 -> Some(69)
          [] i = 65 + 1 -> Some(70)
          [] i = 67 + 1 -> Some(71)
          [] OTHER -> None]

\* Mappings::hardcoded; slot of note n is element n + 1
Hardcoded ==
    [i \in 1..LEN |->
        CASE i = 48 + 1 -> Some(32)
          [] i = 60 + 1 -> Some(67)
          [] i = 62 + 1 -> Some(68)
          [] i = 64 + 1 -> Some(69)
          [] i = 65 + 1 -> Some(70)
          [] i = 67 + 1 -> Some(71)
          [] OTHER -> None]

\* A from_file that masks the note to seven bits instead of skipping it.
ApplyMappingWrapped(table, mapping) ==
    [table EXCEPT ![(mapping.note % Len(table)) + 1] = Some(mapping.key)]

\* A from_file that keeps the first entry of a note (fills empty slots only).
ApplyMappingFirstWins(table, mapping) ==
    IF mapping.note < Len(table) /\ table[mapping.note + 1] = None
    THEN [table EXCEPT ![mapping.note + 1] = Some(mapping.key)]
    ELSE table

\* One iteration of the loop of from_file: get_mut(note as usize) is None
\* beyond the vector, and then the entry is skipped; key as u16 widens.
ApplyMapping(table, mapping) ==
    IF mapping.note < Len(table)
    THEN [table EXCEPT ![mapping.note + 1] = Some(mapping.key)]
    ELSE table

\* The loop of from_file over file_mappings.mapping, in document order.
RECURSIVE ApplyAll(_, _)
ApplyAll(table, entries) ==
    IF entries = <<>> THEN table
    ELSE ApplyAll(ApplyMapping(table, Head(entries)), Tail(entries))

\* A [[mapping]] entry deserializes when note and key are both u8.
IsU8(v) == v >= 0 /\ v <= U8_MAX

\* toml::from_str into FileMappings. A file is [arg, readable, toml,
\* entries]: toml says whether the text is a TOML document holding an array
\* of mapping tables, entries are the integer fields written in it. The
\* document deserializes when every note and key fits u8.
ParseOk(f) ==
    /\ f.toml
    /\ \A i \in 1..Len(f.entries) : IsU8(f.entries[i].note) /\ IsU8(f.entries[i].key)

\* Mappings::from_file: Err(Io), Err(Config) or Ok(table)
FromFile(f) ==
    IF ~f.readable THEN [ok |-> FALSE, err |-> "Io", table |-> <<>>]
    ELSE IF ~ParseOk(f) THEN [ok |-> FALSE, err |-> "Config", table |-> <<>>]
    ELSE [ok |-> TRUE, err |-> "", table |-> ApplyAll(Empty, f.entries)]

\* A get that masks the note to seven bits instead of testing the bound.
GetMasked(table, note) == table[(note % Len(table)) + 1]

\* Mappings::get: self.0.get(note as usize).copied().flatten()
Get(table, note) ==
    IF note < Len(table) THEN table[note + 1] ELSE None

----------------------------------------------------------------------------
(* mappings.rs: MappingsError *)

\* What toml::from_str reports: an optional span (byte range) and a message.
TomlErrors ==
    {[span |-> None, message |-> "invalid"],
     [span |-> Some([start |-> 0, end |-> 1]), message |-> "invalid"]}

NoInner == [span |-> None, message |-> ""]

\* fs::read_to_string(path): the text of the file, here what it holds.
FileContents(f) == [toml |-> f.toml, entries |-> f.entries]

\* An error value that loses the text (an empty String for file_contents).
MappingsErrorNoText(inner, source) ==
    [inner |-> inner, source |-> [toml |-> FALSE, entries |-> <<>>]]

\* MappingsError { inner: error, source: file_contents }
MappingsError(inner, source) == [inner |-> inner, source |-> source]

\* Diagnostic::source_code: Some(&self.source)
SourceCode(e) == Some(e.source)

\* Diagnostic::labels: one LabeledSpan at the span with the parser's
\* message when inner.span() is Some, else none.
Labels(e) ==
    IF e.inner.span # None
    THEN <<[span |-> e.inner.span[1], label |-> e.inner.message]>>
    ELSE <<>>

\* An Error other than Config: a code, no source text, no labels.
Plain(err) == [error |-> err, inner |-> NoInner, source_code |-> None, labels |-> <<>>]

\* No error has been returned.
NoDiag == Plain("")

\* The Error from_file returns, as the report of main shows it.
ErrorOf(err, inner, source) ==
    IF err = "Config"
    THEN LET e == MappingsError(inner, source)
         IN  [error |-> "Config", inner |-> e.inner,
              source_code |-> SourceCode(e), labels |-> Labels(e)]
    ELSE Plain(err)

----------------------------------------------------------------------------
(* main.rs: startup *)

\* A read_mappings that falls back to the hardcoded table when the file
\* cannot be used (unwrap_or_else for ?).
ReadMappingsResultFallback(f) ==
    IF f.arg /\ FromFile(f).ok THEN FromFile(f)
    ELSE [ok |-> TRUE, err |-> "", table |-> Hardcoded]

\* read_mappings: from_file when a path argument is given, else hardcoded
ReadMappingsResult(f) ==
    IF f.arg THEN FromFile(f)
    ELSE [ok |-> TRUE, err |-> "", table |-> Hardcoded]

Handlers == 1..MaxSignals

Running == exitBy = "none"

\* The process ends: no context takes another step.
Exit(status, by) ==
    /\ exitStatus' = Some(status)
    /\ exitBy' = by

\* Entries a configuration document may hold.
DocEntries == [note : DocNotes, key : DocKeys]

RECURSIVE SeqsUpTo(_, _)
SeqsUpTo(S, n) ==
    IF n = 0 THEN {<<>>}
    ELSE LET shorter == SeqsUpTo(S, n - 1)
         IN  shorter \cup {Append(s, e) : s \in {t \in shorter : Len(t) = n - 1}, e \in S}

NoFile == [arg |-> FALSE, readable |-> FALSE, toml |-> FALSE, entries |-> <<>>]

Unreadable == [arg |-> TRUE, readable |-> FALSE, toml |-> FALSE, entries |-> <<>>]

Garbage == [arg |-> TRUE, readable |-> TRUE, toml |-> FALSE, entries |-> <<>>]

Document(entries) == [arg |-> TRUE, readable |-> TRUE, toml |-> TRUE, entries |-> entries]

\* Every command line and file within the bounds.
AllFiles ==
    {NoFile, Unreadable, Garbage} \cup {Document(d) : d \in SeqsUpTo(DocEntries, MaxDocLen)}

\* The command lines of the runs whose shutdown and dispatch are explored.
RunFiles ==
    {NoFile, Unreadable, Garbage,
     Document(<<[note |-> 60, key |-> 65], [note |-> 200, key |-> 10]>>)}

\* What the platform hands to the MessageReceived handler. kind: "NoEvent"
\* (event is None), "MessageErr" (event.Message() fails), "TypeErr"
\* (message.Type() fails), "NoteOn", "NoteOff", "Other" (any other
\* MidiMessageType). valid: cast() and Note() succeed. note: the u8 of Note().
Events ==
    {[kind |-> k, valid |-> TRUE, note |-> 0] :
        k \in {"NoEvent", "MessageErr", "TypeErr", "Other"}}
    \cup {[kind |-> k, valid |-> TRUE, note |-> n] : k \in {"NoteOn", "NoteOff"}, n \in MsgNotes}
    \cup {[kind |-> k, valid |-> FALSE, note |-> 0] : k \in {"NoteOn", "NoteOff"}}

\* A callback invocation that has not started.
IdleCb ==
    [pc |-> "idle", ev |-> [kind |-> "NoEvent", valid |-> TRUE, note |-> 0],
     sent |-> 0, reqs |-> <<>>, result |-> "", ret |-> "", prior |-> 0]

InitWith(files) ==
    /\ file \in files
    /\ pc = "with_shutdown"
    /\ should_exit = FALSE
    /\ token = FALSE
    /\ lastWake = "none"
    /\ hpc = [h \in Handlers |-> "idle"]
    /\ mappings = <<>>
    /\ registered = FALSE
    /\ cb = [c \in Callbacks |-> IdleCb]
    /\ reported = 0
    /\ exitStatus = None
    /\ exitBy = "none"
    /\ diag = NoDiag

Init == InitWith(RunFiles)

\* with_shutdown(): the flag is created false and the handler installed;
\* set_handler(..).unwrap() panics when registration fails.
WithShutdown ==
    /\ Running /\ pc = "with_shutdown"
    /\ \E ok \in BOOLEAN :
        IF ok
        THEN /\ pc' = "read_mappings"
             /\ UNCHANGED <<exitStatus, exitBy, diag>>
        ELSE /\ pc' = "panicked"
             /\ Exit(EXIT_PANIC, "main")
             /\ diag' = Plain("Panic")
    /\ UNCHANGED <<file, should_exit, token, lastWake, hpc, mappings, registered,
                   cb, reported>>

\* let mappings = read_mappings()?;
ReadMappings ==
    /\ Running /\ pc = "read_mappings"
    /\ LET r == ReadMappingsResult(file)
       IN  IF r.ok
           THEN /\ mappings' = r.table
                /\ pc' = "read_options"
                /\ UNCHANGED <<exitStatus, exitBy, diag>>
           ELSE /\ pc' = "failed"
                /\ Exit(EXIT_FAILURE, "main")
                /\ \E inner \in TomlErrors : diag' = ErrorOf(r.err, inner, FileContents(file))
                /\ UNCHANGED mappings
    /\ UNCHANGED <<file, should_exit, token, lastWake, hpc, registered, cb, reported>>

\* let (device, debug) = read_options()?;  The device may be missing or the
\* platform may refuse it. The debug flag only adds a println! of the note.
ReadOptions ==
    /\ Running /\ pc = "read_options"
    /\ \E ok \in BOOLEAN :
        IF ok
        THEN /\ pc' = "register"
             /\ UNCHANGED <<exitStatus, exitBy, diag>>
        ELSE /\ pc' = "failed"
             /\ Exit(EXIT_FAILURE, "main")
             /\ \E err \in {"NoMidiDevices", "Windows"} : diag' = Plain(err)
    /\ UNCHANGED <<file, should_exit, token, lastWake, hpc, mappings, registered,
                   cb, reported>>

----------------------------------------------------------------------------
(* main.rs: the closure returned by with_shutdown *)

\* device.MessageReceived(&handler)?;
Register ==
    /\ Running /\ pc = "register"
    /\ \E ok \in BOOLEAN :
        IF ok
        THEN /\ registered' = TRUE
             /\ pc' = "check"
             /\ UNCHANGED <<exitStatus, exitBy, diag>>
        ELSE /\ pc' = "failed"
             /\ Exit(EXIT_FAILURE, "main")
             /\ diag' = Plain("Windows")
             /\ UNCHANGED registered
    /\ UNCHANGED <<file, should_exit, token, lastWake, hpc, mappings, cb, reported>>

\* A wait loop that consumes the flag it observes (swap(false) for load).
CheckFlagConsume ==
    /\ Running /\ pc = "check"
    /\ pc' = IF should_exit THEN "returned" ELSE "park"
    /\ should_exit' = FALSE
    /\ UNCHANGED <<file, diag, token, lastWake, hpc, mappings, registered,
                   cb, reported, exitStatus, exitBy>>

\* while !should_exit.load(Ordering::Acquire)
CheckFlag ==
    /\ Running /\ pc = "check"
    /\ pc' = IF should_exit THEN "returned" ELSE "park"
    /\ UNCHANGED <<file, diag, should_exit, token, lastWake, hpc, mappings, registered,
                   cb, reported, exitStatus, exitBy>>

\* thread::park() returns by consuming the token, and the loop tests again.
Park ==
    /\ Running /\ pc = "park"
    /\ token
    /\ token' = FALSE
    /\ lastWake' = "token"
    /\ pc' = "check"
    /\ UNCHANGED <<file, diag, should_exit, hpc, mappings, registered, cb, reported,
                   exitStatus, exitBy>>

\* A wait that parks once (if for while): any wake ends the wait.
ParkSpuriousOnce ==
    /\ Running /\ pc = "park"
    /\ ~token
    /\ lastWake' = "spurious"
    /\ pc' = "returned"
    /\ UNCHANGED <<file, diag, should_exit, token, hpc, mappings, registered, cb, reported,
                   exitStatus, exitBy>>

\* thread::park() may also return with no token (a spurious wake).
ParkSpurious ==
    /\ Running /\ pc = "park"
    /\ ~token
    /\ lastWake' = "spurious"
    /\ pc' = "check"
    /\ UNCHANGED <<file, diag, should_exit, token, hpc, mappings, registered, cb, reported,
                   exitStatus, exitBy>>

\* Ok(()) of the closure: the device is dropped, main returns Ok.
MainReturn ==
    /\ Running /\ pc = "returned"
    /\ registered' = FALSE
    /\ pc' = "done"
    /\ Exit(EXIT_SUCCESS, "main")
    /\ UNCHANGED <<file, diag, should_exit, token, lastWake, hpc, mappings, cb, reported>>

----------------------------------------------------------------------------
(* main.rs: the handler given to ctrlc::set_handler *)

\* A handler installed by the closure, after the callback is registered.
InstalledLate == pc \notin {"with_shutdown", "read_mappings", "read_options", "register"}

\* The handler exists once with_shutdown has installed it.
Installed == pc # "with_shutdown"

\* A handler that exits when the flag was clear (the test negated).
SwapBranchNegated(old) == IF old THEN "unpark" ELSE "exit"

\* The branch taken on the value should_exit.swap(true) returns.
SwapBranch(old) == IF old THEN "exit" ELSE "unpark"

\* A handler that loads the flag and stores true afterwards: the value it
\* tests may predate another invocation's store.
HandlerLoadThenStore(h) ==
    /\ Running /\ Installed
    /\ hpc[h] = "idle"
    /\ \E old \in {should_exit, FALSE} : hpc' = [hpc EXCEPT ![h] = SwapBranch(old)]
    /\ should_exit' = TRUE
    /\ UNCHANGED <<file, diag, pc, token, lastWake, mappings, registered, cb, reported,
                   exitStatus, exitBy>>

\* A handler that only reads the flag (load for swap) before it wakes the
\* main thread.
HandlerLoadOnly(h) ==
    /\ Running /\ Installed
    /\ hpc[h] = "idle"
    /\ hpc' = [hpc EXCEPT ![h] = SwapBranch(should_exit)]
    /\ UNCHANGED <<file, diag, pc, should_exit, token, lastWake, mappings, registered, cb,
                   reported, exitStatus, exitBy>>

\* if should_exit.swap(true, Ordering::AcqRel): one atomic read-modify-write
HandlerSwap(h) ==
    /\ Running /\ Installed
    /\ hpc[h] = "idle"
    /\ hpc' = [hpc EXCEPT ![h] = SwapBranch(should_exit)]
    /\ should_exit' = TRUE
    /\ UNCHANGED <<file, diag, pc, token, lastWake, mappings, registered, cb, reported,
                   exitStatus, exitBy>>

\* A handler whose forced exit reports success (exit(0)).
HandlerExitZero(h) ==
    /\ Running
    /\ hpc[h] = "exit"
    /\ Exit(EXIT_SUCCESS, "handler")
    /\ UNCHANGED <<file, diag, pc, should_exit, token, lastWake, hpc, mappings, registered,
                   cb, reported>>

\* process::exit(1)
HandlerExit(h) ==
    /\ Running
    /\ hpc[h] = "exit"
    /\ Exit(EXIT_FAILURE, "handler")
    /\ UNCHANGED <<file, diag, pc, should_exit, token, lastWake, hpc, mappings, registered,
                   cb, reported>>

\* A handler that sets the flag and forgets to wake the main thread.
HandlerNoUnpark(h) ==
    /\ Running
    /\ hpc[h] = "unpark"
    /\ hpc' = [hpc EXCEPT ![h] = "done"]
    /\ UNCHANGED <<file, diag, pc, should_exit, token, lastWake, mappings, registered, cb,
                   reported, exitStatus, exitBy>>

\* main_thread.unpark()
HandlerUnpark(h) ==
    /\ Running
    /\ hpc[h] = "unpark"
    /\ token' = TRUE
    /\ hpc' = [hpc EXCEPT ![h] = "done"]
    /\ UNCHANGED <<file, diag, pc, should_exit, lastWake, mappings, registered, cb, reported,
                   exitStatus, exitBy>>

----------------------------------------------------------------------------
(* main.rs: handle_midi_message and the MessageReceived handler *)

\* The dispatch with one arm changed: flags "swapped" (note-on releases,
\* note-off presses), "default" (an unmapped note sends key 0), "strict"
\* (any other message kind is an error).
HandleMidiMessageWith(change, message, table, sent) ==
    IF message.kind = "TypeErr" THEN [reqs |-> <<>>, result |-> "Err"]
    ELSE IF message.kind \notin {"NoteOn", "NoteOff"}
    THEN [reqs |-> <<>>, result |-> IF change = "strict" THEN "Err" ELSE "Ok"]
    ELSE IF ~message.valid THEN [reqs |-> <<>>, result |-> "Err"]
    ELSE LET down == IF change = "swapped" THEN "NoteOff" ELSE "NoteOn"
             ty   == IF message.kind = down THEN KEYDOWN ELSE KEYEVENTF_KEYUP
             slot == Get(table, message.note)
             key  == IF slot = None /\ change = "default" THEN Some(0) ELSE slot
         IN  IF key = None THEN [reqs |-> <<>>, result |-> "Ok"]
             ELSE [reqs   |-> <<[wVk |-> key[1], dwFlags |-> ty]>>,
                   result |-> IF sent = 1 THEN "Ok" ELSE "Err"]

HandleMidiMessageSwapped(message, table, sent) ==
    HandleMidiMessageWith("swapped", message, table, sent)

HandleMidiMessageDefault(message, table, sent) ==
    HandleMidiMessageWith("default", message, table, sent)

HandleMidiMessageStrict(message, table, sent) ==
    HandleMidiMessageWith("strict", message, table, sent)

\* A dispatch that ignores a message it cannot read (.ok() and an early
\* return for ?).
HandleMidiMessageLenient(message, table, sent) ==
    IF message.kind = "TypeErr" THEN [reqs |-> <<>>, result |-> "Ok"]
    ELSE IF message.kind \notin {"NoteOn", "NoteOff"} THEN [reqs |-> <<>>, result |-> "Ok"]
    ELSE IF ~message.valid THEN [reqs |-> <<>>, result |-> "Ok"]
    ELSE HandleMidiMessageWith("none", message, table, sent)

\* handle_midi_message(message, mappings, debug) with SendInput returning
\* sent: the requests made to SendInput, in order, and the Result.
HandleMidiMessage(message, table, sent) ==
    IF message.kind = "TypeErr" THEN [reqs |-> <<>>, result |-> "Err"]
    ELSE IF message.kind \notin {"NoteOn", "NoteOff"} THEN [reqs |-> <<>>, result |-> "Ok"]
    ELSE IF ~message.valid THEN [reqs |-> <<>>, result |-> "Err"]
    ELSE LET ty  == IF message.kind = "NoteOn" THEN KEYDOWN ELSE KEYEVENTF_KEYUP
             key == Get(table, message.note)
         IN  IF key = None THEN [reqs |-> <<>>, result |-> "Ok"]
             ELSE [reqs   |-> <<[wVk |-> key[1], dwFlags |-> ty]>>,
                   result |-> IF sent = 1 THEN "Ok" ELSE "Err"]

\* A closure that propagates the dispatch error with ? instead of reporting.
HandlerPropagates(ev, table, sent) ==
    IF ev.kind = "NoEvent"
    THEN [reqs |-> <<>>, result |-> "", ret |-> "Ok", reports |-> 0]
    ELSE IF ev.kind = "MessageErr"
    THEN [reqs |-> <<>>, result |-> "", ret |-> "Err", reports |-> 0]
    ELSE LET r == HandleMidiMessage(ev, table, sent)
         IN  [reqs |-> r.reqs, result |-> r.result, ret |-> r.result, reports |-> 0]

\* The closure given to MessageReceived: reqs and result of
\* handle_midi_message (result "" when it is not called), the closure's own
\* return value, and the number of report_error calls.
Handler(ev, table, sent) ==
    IF ev.kind = "NoEvent"
    THEN [reqs |-> <<>>, result |-> "", ret |-> "Ok", reports |-> 0]
    ELSE IF ev.kind = "MessageErr"
    THEN [reqs |-> <<>>, result |-> "", ret |-> "Err", reports |-> 0]
    ELSE LET r == HandleMidiMessage(ev, table, sent)
         IN  [reqs |-> r.reqs, result |-> r.result, ret |-> "Ok",
              reports |-> IF r.result = "Err" THEN 1 ELSE 0]

\* The platform invokes the handler with an event on some worker context.
CallbackEnter(c) ==
    /\ Running /\ registered
    /\ cb[c].pc = "idle"
    /\ \E ev \in Events : cb' = [cb EXCEPT ![c] = [IdleCb EXCEPT !.pc = "running", !.ev = ev]]
    /\ UNCHANGED <<file, diag, pc, should_exit, token, lastWake, hpc, mappings, registered,
                   reported, exitStatus, exitBy>>

\* What SendInput may return for the requests of a dispatch: 1 (the event
\* was inserted) or 0 (blocked); a dispatch that makes no request never
\* calls it, and sent stays 0.
SendInputReturns(ev, table) ==
    IF ev.kind \in {"NoEvent", "MessageErr"} \/ HandleMidiMessage(ev, table, 1).reqs = <<>>
    THEN {0}
    ELSE {0, 1}

\* A dispatch that takes the key out of the slot it looks up (take() for
\* copied()), so the table changes under the other dispatches.
CallbackRunTakes(c) ==
    /\ Running
    /\ cb[c].pc = "running"
    /\ \E sent \in SendInputReturns(cb[c].ev, mappings) :
        LET r == Handler(cb[c].ev, mappings, sent)
        IN  /\ cb' = [cb EXCEPT ![c] = [pc |-> "done", ev |-> cb[c].ev, sent |-> sent,
                                        reqs |-> r.reqs, result |-> r.result,
                                        ret |-> r.ret, prior |-> reported]]
            /\ reported' = reported + r.reports
            /\ mappings' = IF r.reqs # <<>>
                           THEN [mappings EXCEPT ![cb[c].ev.note + 1] = None]
                           ELSE mappings
    /\ UNCHANGED <<file, diag, pc, should_exit, token, lastWake, hpc, registered,
                   exitStatus, exitBy>>

\* The handler body runs to its return.
CallbackRun(c) ==
    /\ Running
    /\ cb[c].pc = "running"
    /\ \E sent \in SendInputReturns(cb[c].ev, mappings) :
        LET r == Handler(cb[c].ev, mappings, sent)
        IN  /\ cb' = [cb EXCEPT ![c] = [pc |-> "done", ev |-> cb[c].ev, sent |-> sent,
                                        reqs |-> r.reqs, result |-> r.result,
                                        ret |-> r.ret, prior |-> reported]]
            /\ reported' = reported + r.reports
    /\ UNCHANGED <<file, diag, pc, should_exit, token, lastWake, hpc, mappings, registered,
                   exitStatus, exitBy>>

----------------------------------------------------------------------------
(* Specifications *)

Next ==
    \/ WithShutdown
    \/ ReadMappings
    \/ ReadOptions
    \/ Register
    \/ CheckFlag
    \/ Park
    \/ ParkSpurious
    \/ MainReturn
    \/ \E h \in Handlers : HandlerSwap(h)
    \/ \E h \in Handlers : HandlerExit(h)
    \/ \E h \in Handlers : HandlerUnpark(h)
    \/ \E c \in Callbacks : CallbackEnter(c)
    \/ \E c \in Callbacks : CallbackRun(c)

Spec == Init /\ [][Next]_vars

\* Every context that can take a step is eventually scheduled.
Fairness ==
    /\ WF_vars(CheckFlag)
    /\ WF_vars(Park)
    /\ \A h \in Handlers : WF_vars(HandlerExit(h)) /\ WF_vars(HandlerUnpark(h))

\* The runs whose termination is explored: the table plays no part in the
\* wait, so one table and one failing startup are enough.
LiveFiles == {NoFile, Garbage}

LiveSpec == InitWith(LiveFiles) /\ [][Next]_vars /\ Fairness

\* The startup of main alone, over every command line within the bounds.
StartupNext == WithShutdown \/ ReadMappings

TableSpec == InitWith(AllFiles) /\ [][StartupNext]_vars

\* Startup and the dispatch of one message, over every command line within
\* the bounds: every table either construction path produces is looked up.
LookupNext ==
    \/ WithShutdown
    \/ ReadMappings
    \/ ReadOptions
    \/ Register
    \/ CallbackEnter("cb1")
    \/ CallbackRun("cb1")

LookupSpec == InitWith(AllFiles) /\ [][LookupNext]_vars

----------------------------------------------------------------------------
(* Shutdown coordination *)

Graceful == {h \in Handlers : hpc[h] \in {"unpark", "done"}}

Forced == {h \in Handlers : hpc[h] = "exit"}

InWait == pc \in {"check", "park"}

\* C1: once an interrupt has been handled the flag is true, and a main
\* thread that is in its wait loop with the flag true eventually leaves the
\* loop (unless a further interrupt takes the forced-exit path first),
\* under fair scheduling of the main thread and the handler.
C1_WaitReturns ==
    /\ [](Graceful \cup Forced # {} => should_exit)
    /\ (should_exit /\ InWait /\ Running) ~>
           (pc = "returned" \/ Forced # {})

\* One interrupt was handled, its unpark woke the parked main thread, and
\* the wait has returned.
C1_Witness ==
    /\ pc = "returned"
    /\ should_exit
    /\ lastWake = "token"
    /\ Cardinality(Graceful) = 1 /\ Forced = {}

C3_AtomicSwap ==
    (Graceful \cup Forced # {}) => Cardinality(Graceful) = 1

\* Two invocations have swapped: one graceful, one forced.
C3_Witness ==
    Cardinality(Graceful) = 1 /\ Cardinality(Forced) = 1

\* C4: the flag starts false and no step takes it from true to false.
C4_FlagMonotonic ==
    /\ ~should_exit
    /\ [][should_exit => should_exit']_vars

\* The flag is still true after handler invocations, wait-loop steps and a
\* message dispatch.
C4_Witness ==
    /\ should_exit
    /\ pc = "done"
    /\ \E c \in Callbacks : cb[c].pc = "done"

\* C5: the wait is left only with the flag true: a return of park leads
\* back to the test of the flag, and the test leads to park again when the
\* flag is false.
C5_ReturnsOnlyWhenFlagSet ==
    /\ [](pc \in {"returned", "done"} => should_exit)
    /\ [][/\ (pc = "park" /\ pc' # "park") => pc' = "check"
          /\ (pc = "check" /\ pc' # "check") =>
                 pc' = (IF should_exit THEN "returned" ELSE "park")
         ]_vars

\* The main thread woke with no token and the flag false, tested the
\* flag, and is parked again.
C5_Witness ==
    pc = "park" /\ lastWake = "spurious" /\ ~should_exit

----------------------------------------------------------------------------
(* Dispatch *)

Done == {c \in Callbacks : cb[c].pc = "done"}

\* The callback invocations that dispatched a note-on or note-off message
\* whose note was read.
NoteDone == {c \in Done : cb[c].ev.kind \in {"NoteOn", "NoteOff"} /\ cb[c].ev.valid}

\* The slot of note n in the current table, None beyond the table.
Slot(n) == IF n < 128 THEN mappings[n + 1] ELSE <<>>

\* C6: a dispatched note-on for a note mapped to key k has requested exactly
\* one key-down with key k, a note-off exactly one key-up with key k; with
\* the hardcoded table note 60 gives key 0x43 (67).
C6_MappedNoteRequestsKey ==
    \A c \in NoteDone :
        LET n == cb[c].ev.note
        IN  Slot(n) # <<>> =>
                /\ cb[c].reqs =
                       <<[wVk     |-> Slot(n)[1],
                          dwFlags |-> IF cb[c].ev.kind = "NoteOn" THEN 0 ELSE 2]>>
                /\ (~file.arg /\ n = 60) => cb[c].reqs[1].wVk = 67

\* Note-on and note-off for note 60 were both dispatched under the hardcoded
\* table: a key-down and a key-up with the same key code.
C6_Witness ==
    /\ ~file.arg
    /\ \E c, d \in NoteDone :
        /\ cb[c].ev = [kind |-> "NoteOn", valid |-> TRUE, note |-> 60]
        /\ cb[d].ev = [kind |-> "NoteOff", valid |-> TRUE, note |-> 60]
        /\ Len(cb[c].reqs) = 1 /\ Len(cb[d].reqs) = 1
        /\ cb[c].reqs[1].wVk = cb[d].reqs[1].wVk

\* C7: a dispatched note-on or note-off for a note whose slot is unmapped
\* has made no injection request and returned Ok.
C7_UnmappedNoteIsNoOp ==
    \A c \in NoteDone :
        (cb[c].ev.note < 128 /\ Slot(cb[c].ev.note) = <<>>) =>
            /\ cb[c].reqs = <<>>
            /\ cb[c].result = "Ok"
            /\ cb[c].ret = "Ok"

\* A note-on for the unmapped note 61 was dispatched.
C7_Witness ==
    \E c \in NoteDone :
        /\ cb[c].ev.kind = "NoteOn" /\ cb[c].ev.note = 61
        /\ Slot(61) = <<>>
        /\ cb[c].reqs = <<>>

\* C8: the dispatch of a well-formed message that is neither note-on nor
\* note-off returns Ok, makes no injection request, reports nothing and
\* changes nothing but the invocation's own record.
C8_OtherKindIsNoOp ==
    [][\A c \in Callbacks :
          (cb[c].pc = "running" /\ cb'[c].pc = "done" /\ cb[c].ev.kind = "Other") =>
              /\ cb'[c].reqs = <<>>
              /\ cb'[c].result = "Ok"
              /\ cb'[c].ret = "Ok"
              /\ reported' = reported
              /\ UNCHANGED <<file, diag, pc, should_exit, token, lastWake, hpc, mappings,
                             registered, exitStatus, exitBy>>
      ]_vars

\* A message of another kind was dispatched.
C8_Witness ==
    \E c \in Done : cb[c].ev.kind = "Other" /\ cb[c].result = "Ok"

\* The invocations whose injection request failed.
InjectionFailed == {c \in Done : cb[c].reqs # <<>> /\ cb[c].sent # 1}

\* C9: a failed injection is requested once, reported once, and the
\* callback returns Ok; the callback stays attached while the main thread
\* waits; and what a dispatch does is the same whether or not a failure
\* was reported before it.
C9_FailureDoesNotStopDispatch ==
    /\ [](/\ \A c \in InjectionFailed :
               Len(cb[c].reqs) = 1 /\ cb[c].result = "Err" /\ cb[c].ret = "Ok"
          /\ InWait => registered
          /\ \A c, d \in Done :
               (cb[c].ev = cb[d].ev /\ cb[c].sent = cb[d].sent) =>
                   /\ cb[c].reqs = cb[d].reqs
                   /\ cb[c].result = cb[d].result
                   /\ cb[c].ret = cb[d].ret)
    /\ [][\A c \in Callbacks :
             (cb[c].pc = "running" /\ cb'[c].pc = "done") =>
                 /\ registered' = registered /\ pc' = pc /\ exitBy' = exitBy
                 /\ reported' = reported + (IF cb'[c].result = "Err" THEN 1 ELSE 0)
         ]_vars

\* One injection failed and was reported; the same message was dispatched
\* again afterwards and its key was injected; the callback is attached.
C9_Witness ==
    /\ registered
    /\ \E c \in InjectionFailed : \E d \in Done :
        /\ cb[d].prior >= 1
        /\ cb[d].ev = cb[c].ev
        /\ cb[d].sent = 1 /\ Len(cb[d].reqs) = 1 /\ cb[d].result = "Ok"

----------------------------------------------------------------------------
(* Table construction *)

InRange(mapping) == mapping.note >= 0 /\ mapping.note < 128

\* The document of the run deserializes: TOML, every field a u8.
Parses ==
    /\ file.arg /\ file.readable /\ file.toml
    /\ \A i \in 1..Len(file.entries) :
        /\ file.entries[i].note \in 0..255
        /\ file.entries[i].key \in 0..255

\* read_mappings has been executed.
Built == pc \notin {"with_shutdown", "panicked", "read_mappings"}

\* C10: building the table from a document that deserializes succeeds
\* whatever notes it names; an entry with a note outside [0,128) sets no
\* slot, and the table equals the one built from the document without
\* those entries.
C10_OutOfRangeDropped ==
    (Built /\ Parses) =>
        /\ pc = "read_options" /\ Running
        /\ Len(mappings) = 128
        /\ \A n \in 0..127 :
               mappings[n + 1] # <<>> =>
                   \E i \in 1..Len(file.entries) : file.entries[i].note = n
        /\ mappings = FromFile(Document(SelectSeq(file.entries, InRange))).table

\* A table was built from a document holding an entry for note 200 and an
\* entry for a note inside the table.
C10_Witness ==
    /\ Built /\ Parses
    /\ \E i, j \in 1..Len(file.entries) :
        /\ file.entries[i].note = 200
        /\ file.entries[j].note < 128
    /\ \E n \in 0..127 : mappings[n + 1] # <<>>

\* The positions of the document's entries that name note n.
EntriesFor(n) == {i \in 1..Len(file.entries) : file.entries[i].note = n}

\* The position of the last entry that names note n.
LastFor(n) == CHOOSE i \in EntriesFor(n) : \A j \in EntriesFor(n) : j <= i

\* C11: the table built from a document that deserializes has 128 slots;
\* the slot of every note n in [0,128) holds the key of the last entry of
\* the document whose note is n, and is unmapped when no entry names n.
C11_LastEntryWins ==
    (Built /\ Parses) =>
        /\ Len(mappings) = 128
        /\ \A n \in 0..127 :
               mappings[n + 1] =
                   (IF EntriesFor(n) = {} THEN <<>>
                    ELSE <<file.entries[LastFor(n)].key>>)

\* The table was built from {note 60, key 65} then {note 60, key 66}, and
\* slot 60 holds 66.
C11_Witness ==
    /\ Built /\ Parses
    /\ file.entries = <<[note |-> 60, key |-> 65], [note |-> 60, key |-> 66]>>
    /\ mappings[60 + 1] = <<66>>

----------------------------------------------------------------------------
(* Lookup *)

\* The documented default mappings: C3 -> space, C4..G4 -> C, D, E, F, G.
Documented(n) ==
    CASE n = 48 -> <<32>>
      [] n = 60 -> <<67>>
      [] n = 62 -> <<68>>
      [] n = 64 -> <<69>>
      [] n = 65 -> <<70>>
      [] n = 67 -> <<71>>
      [] OTHER -> <<>>

\* C12: on the table built with no path argument, get returns the
\* documented key for notes 48, 60, 62, 64, 65, 67 and None for every other
\* note in [0,128).
C12_DefaultTable ==
    (Built /\ ~file.arg) =>
        \A n \in 0..127 : Get(mappings, n) = Documented(n)

\* Under the default table a note-on for note 60 was looked up and its key
\* 0x43 requested.
C12_Witness ==
    /\ Built /\ ~file.arg
    /\ \E c \in NoteDone :
        /\ cb[c].ev.note = 60
        /\ Len(cb[c].reqs) = 1 /\ cb[c].reqs[1].wVk = 67

\* C13: on every table built, get returns None for every note in
\* 128..255, and a dispatched note-on or note-off for such a note has made
\* no injection request and returned Ok.
C13_OutOfRangeLookup ==
    mappings # <<>> =>
        /\ \A n \in 128..255 : Get(mappings, n) = <<>>
        /\ \A c \in NoteDone :
               cb[c].ev.note >= 128 =>
                   cb[c].reqs = <<>> /\ cb[c].result = "Ok" /\ cb[c].ret = "Ok"

\* A note-off for note 200 was dispatched under a table built from a
\* document, with no request.
C13_Witness ==
    /\ file.arg /\ mappings # <<>>
    /\ \E i \in 1..Len(file.entries) : file.entries[i].note < 128
    /\ \E c \in NoteDone :
        /\ cb[c].ev.kind = "NoteOff" /\ cb[c].ev.note = 200
        /\ cb[c].reqs = <<>>

----------------------------------------------------------------------------
(* Sharing *)

\* The requests the dispatch of ev makes, from ev and the table alone.
RequestsFor(ev) ==
    IF ev.kind \in {"NoteOn", "NoteOff"} /\ ev.valid /\ Slot(ev.note) # <<>>
    THEN <<[wVk     |-> Slot(ev.note)[1],
            dwFlags |-> IF ev.kind = "NoteOn" THEN 0 ELSE 2]>>
    ELSE <<>>

\* C14: once constructed the table has 128 slots and no step of any
\* context changes it; the requests of every finished dispatch are those of
\* its own message and the table; and the step that finishes one dispatch
\* leaves the record of every other dispatch as it was.
C14_TableWriteOnce ==
    /\ [](mappings # <<>> => Len(mappings) = 128)
    /\ [](\A c \in Done : cb[c].reqs = RequestsFor(cb[c].ev))
    /\ [][/\ mappings # <<>> => mappings' = mappings
          /\ \A c \in Callbacks :
                 (cb[c].pc = "running" /\ cb'[c].pc = "done") =>
                     \A d \in Callbacks \ {c} : cb'[d] = cb[d]
         ]_vars

\* One dispatch has made its request while another message is in flight
\* and an interrupt handler is between its swap and its unpark.
C14_Witness ==
    /\ Len(mappings) = 128
    /\ \E c, d \in Callbacks :
        /\ cb[c].pc = "done" /\ cb[c].reqs # <<>>
        /\ cb[d].pc = "running" /\ cb[d].ev # cb[c].ev
    /\ \E h \in Handlers : hpc[h] = "unpark"

----------------------------------------------------------------------------
(* Configuration errors *)

\* The run names a readable file that does not deserialize.
Invalid == file.arg /\ file.readable /\ ~Parses

\* C15: building the table from a document that does not deserialize fails
\* with a Configuration error whose source text is the text read from the
\* file, unchanged, and whose labels are the parser's span and message when
\* it gave a span and empty when it gave none; no table is produced.
C15_ConfigErrorCarriesSource ==
    (Built /\ Invalid) =>
        /\ pc = "failed"
        /\ mappings = <<>>
        /\ diag.error = "Config"
        /\ diag.source_code = <<[toml |-> file.toml, entries |-> file.entries]>>
        /\ diag.labels =
               (IF diag.inner.span = <<>> THEN <<>>
                ELSE <<[span |-> diag.inner.span[1], label |-> diag.inner.message]>>)

\* A document with a field beyond u8 was rejected; the error carries its
\* text and a labelled span.
C15_Witness ==
    /\ Built /\ Invalid
    /\ file.entries # <<>>
    /\ diag.error = "Config"
    /\ diag.source_code[1].entries = file.entries
    /\ Len(diag.labels) = 1

\* The run names a file that cannot be read or does not deserialize.
BadFile == file.arg /\ ~Parses

\* C16: in a run whose configuration file cannot be read or does not
\* deserialize, main never gets past read_mappings: once read_mappings has
\* run the process has exited with status 1 and a Config or Io error; no
\* table exists, the callback is never attached, no message is dispatched,
\* and the exit status is never 0.
C16_ConfigErrorFatalAtStartup ==
    BadFile =>
        /\ pc \in {"with_shutdown", "panicked", "read_mappings", "failed"}
        /\ Built =>
               /\ pc = "failed" /\ ~Running
               /\ exitStatus = <<1>>
               /\ diag.error \in {"Config", "Io"}
        /\ mappings = <<>>
        /\ ~registered
        /\ \A c \in Callbacks : cb[c] = IdleCb
        /\ exitStatus # <<0>>

\* A run with an invalid document has ended in read_mappings, after an
\* interrupt had already been handled.
C16_Witness ==
    /\ BadFile /\ file.readable
    /\ pc = "failed" /\ exitStatus = <<1>> /\ diag.error = "Config"
    /\ Graceful # {}
    /\ ~registered

----------------------------------------------------------------------------
(* Exit codes *)

\* C17: the exit status is 0 exactly when main has returned from the wait,
\* which happens only with the flag true after an interrupt took the
\* graceful path; a run with exactly one interrupt and a successful startup
\* that has ended has status 0; and a process ended by the handler (the
\* forced path of a further interrupt) has status 1.
C17_ExitCodes ==
    /\ exitStatus = <<0>> <=> pc = "done"
    /\ pc = "done" =>
           exitBy = "main" /\ should_exit /\ Cardinality(Graceful) = 1
    /\ (~Running /\ Cardinality(Graceful \cup Forced) = 1
            /\ pc \notin {"failed", "panicked"}) =>
           exitStatus = <<0>>
    /\ exitBy = "handler" =>
           exitStatus = <<1>> /\ Forced # {} /\ Cardinality(Graceful) = 1

\* Startup succeeded, exactly one interrupt was delivered, the wait
\* returned and the process ended with status 0.
C17_Witness ==
    /\ exitStatus = <<0>> /\ exitBy = "main"
    /\ Cardinality(Graceful) = 1 /\ Forced = {}
    /\ \A h \in Handlers : hpc[h] \in {"idle", "done"}
    /\ lastWake = "token"

----------------------------------------------------------------------------
(* Malformed messages *)

\* The dispatches of a message whose kind or whose note could not be read.
Malformed ==
    {c \in Done : \/ cb[c].ev.kind = "TypeErr"
                  \/ cb[c].ev.kind \in {"NoteOn", "NoteOff"} /\ ~cb[c].ev.valid}

\* C18: the dispatch of a message whose kind cannot be read, or of a
\* note-on or note-off whose note cannot be read, returns Err and makes no
\* injection request, while the dispatch of a well-formed message of
\* another kind returns Ok: the two results differ.
C18_MalformedMessageFails ==
    /\ \A c \in Malformed : cb[c].result = "Err" /\ cb[c].reqs = <<>>
    /\ \A c \in Malformed : \A d \in Done :
           cb[d].ev.kind = "Other" => cb[d].result # cb[c].result

\* A note-on whose note could not be read and a message of another kind
\* have both been dispatched.
C18_Witness ==
    \E c \in Malformed : \E d \in Done :
        /\ cb[c].ev.kind = "NoteOn"
        /\ cb[d].ev.kind = "Other"
        /\ cb[c].result = "Err" /\ cb[d].result = "Ok"

----------------------------------------------------------------------------
(* Order of the flag and the wake *)

\* C19: the handler sets the flag before it wakes the main thread: the flag
\* is true whenever an invocation is on the graceful path (about to unpark
\* or past it), whenever the park token is set, and whenever the latest
\* return of park consumed a token; the test that follows such a return
\* leaves the wait.
C19_FlagBeforeWake ==
    /\ [](Graceful # {} => should_exit)
    /\ [](token => should_exit)
    /\ [](lastWake = "token" => should_exit)
    /\ [][(pc = "check" /\ lastWake = "token" /\ pc' # "check") => pc' = "returned"]_vars

\* The handler has issued its unpark while the main thread is parked: the
\* token is set and the flag is already true.
C19_Witness ==
    /\ pc = "park" /\ token
    /\ \E h \in Handlers : hpc[h] = "done"
    /\ should_exit

----------------------------------------------------------------------------
(* No lost wake-up *)

\* C20: the handler is installed before the table exists and before the
\* main thread waits; a main thread that is at park with the flag true has
\* a token or an unpark still to come; the test of a flag that is already
\* true leaves the wait at once; and, under fair scheduling, once an
\* interrupt took the graceful path a main thread in the wait loop leaves
\* it (unless a further interrupt takes the forced path first).
C20_NoLostWakeup ==
    /\ []((mappings # <<>> \/ InWait) => Installed)
    /\ []((pc = "park" /\ should_exit /\ Running) =>
              (token \/ \E h \in Handlers : hpc[h] = "unpark"))
    /\ [][(pc = "check" /\ should_exit /\ pc' # "check") => pc' = "returned"]_vars
    /\ (Graceful # {} /\ InWait /\ Running) ~> (pc = "returned" \/ Forced # {})

\* The first interrupt was handled before the main thread ever parked, and
\* the wait has returned without a single return of park.
C20_Witness ==
    /\ pc = "returned"
    /\ lastWake = "none"
    /\ \E h \in Handlers : hpc[h] = "done"
    /\ token

====
